---- MODULE Spec2Model ----
(***************************************************************************)
(* A model of the Babel lexer (src/babelsdk/babel/lexer.py, a wrapper      *)
(* around a ply.lex lexer) and of the runtime data types                   *)
(* (src/babelapi/generator/target/python/babel_data_types.py).             *)
(*                                                                         *)
(* Conventions.                                                            *)
(*  - A Python string is a sequence of one-character strings.  Positions   *)
(*    (lexpos, match ends) keep Python's 0-based values; the character at  *)
(*    Python index i of s is s[i+1].                                       *)
(*  - The lexer is Python 2 code: `/` on integers is floor division        *)
(*    (\div), `%` gives a result with the sign of the divisor (TLA+ %).    *)
(*  - A regular expression of a rule is an operator re_X(s, p) giving the  *)
(*    end of the match of the expression at position p of s, or NoMatch,   *)
(*    as Python's re (first alternative, greedy, backtracking) gives it.   *)
(*  - ply.lex is modelled by what its token() does with the rules: the     *)
(*    ignored characters are skipped, the rules are tried in ply's order   *)
(*    (functions in order of definition, then strings by decreasing length *)
(*    of the expression), the first that matches wins.                     *)
(***************************************************************************)
EXTENDS Integers, Sequences, FiniteSets, TLC

\* ------------------------------------------------------------------ bounds

\* Documents of the indentation family: at most this many pieces.
MaxIndentPieces == 4
\* Documents of the word family: at most this many pieces.
MaxWordPieces == 3
\* token() is called at most this many times after ply reached the end of
\* the input (ply moves lexpos by one on each such call).
MaxEofCalls == 3

\* ------------------------------------------------------------- characters

NL == "\n"
SP == " "
TAB == "\t"

Lower == {"a","b","c","d","e","f","g","h","i","j","k","l","m","n","o","p","q",
          "r","s","t","u","v","w","x","y","z"}
Upper == {"A","B","C","D","E","F","G","H","I","J","K","L","M","N","O","P","Q",
          "R","S","T","U","V","W","X","Y","Z"}
Digit == {"0","1","2","3","4","5","6","7","8","9"}
\* \w of Python's re
WordChar == Lower \cup Upper \cup Digit \cup {"_"}
\* what str.lstrip() strips (the vertical tab has no TLA+ escape)
PyWhitespace == {" ", "\t", "\n", "\r", "\f"}

NoMatch == 0 - 1

\* s[i:j] of Python
Slice(s, i, j) == SubSeq(s, i + 1, j)

\* s[i] of Python, "" outside the string
At(s, i) == IF i >= 0 /\ i < Len(s) THEN s[i + 1] ELSE ""

\* the end of the longest run of characters of class C that starts at p
RECURSIVE Star(_, _, _)
Star(s, p, C) == IF At(s, p) \in C THEN Star(s, p + 1, C) ELSE p

\* the end of the longest run of characters outside X that starts at p
RECURSIVE StarNot(_, _, _)
StarNot(s, p, X) ==
    IF p < Len(s) /\ At(s, p) \notin X THEN StarNot(s, p + 1, X) ELSE p

\* the literal w stands at p
Lit(s, p, w) == p + Len(w) <= Len(s) /\ Slice(s, p, p + Len(w)) = w

\* \b at p: exactly one of the characters around p is a word character
WordBoundary(s, p) == (At(s, p - 1) \in WordChar) # (At(s, p) \in WordChar)

\* ------------------------------------------------- the rules' expressions

\* r'\btrue\b|\bfalse\b'
re_BOOLEAN(s, p) ==
    IF WordBoundary(s, p) /\ Lit(s, p, <<"t","r","u","e">>) /\ WordBoundary(s, p + 4)
    THEN p + 4
    ELSE IF WordBoundary(s, p) /\ Lit(s, p, <<"f","a","l","s","e">>)
            /\ WordBoundary(s, p + 5)
    THEN p + 5
    ELSE NoMatch

\* r'\bnull\b'
re_NULL(s, p) ==
    IF WordBoundary(s, p) /\ Lit(s, p, <<"n","u","l","l">>) /\ WordBoundary(s, p + 4)
    THEN p + 4
    ELSE NoMatch

\* r'[a-zA-Z_][a-zA-Z0-9_-]*'
re_ID(s, p) ==
    IF At(s, p) \in Lower \cup Upper \cup {"_"}
    THEN Star(s, p + 1, WordChar \cup {"-"})
    ELSE NoMatch

\* r'\/[/a-zA-Z0-9_-]*'
re_PATH(s, p) ==
    IF At(s, p) = "/" THEN Star(s, p + 1, WordChar \cup {"/", "-"}) ELSE NoMatch

\* r'::'
re_DOUBLE_COLON(s, p) == IF Lit(s, p, <<":", ":">>) THEN p + 2 ELSE NoMatch

\* (E[\+-]?\d+) at p: its end, or NoMatch
re_Exponent(s, p) ==
    IF At(s, p) # "E" THEN NoMatch
    ELSE LET q == IF At(s, p + 1) \in {"+", "-"} THEN p + 2 ELSE p + 1
         IN  IF At(s, q) \in Digit THEN Star(s, q, Digit) ELSE NoMatch

\* r'((\d*\.\d+)(E[\+-]?\d+)?|([1-9]\d*E[\+-]?\d+))'
re_FLOAT(s, p) ==
    LET d == Star(s, p, Digit)
    IN  IF At(s, d) = "." /\ At(s, d + 1) \in Digit
        THEN LET f == Star(s, d + 1, Digit)
                 e == re_Exponent(s, f)
             IN  IF e # NoMatch THEN e ELSE f
        ELSE IF At(s, p) \in Digit \ {"0"} THEN re_Exponent(s, d)
        ELSE NoMatch

\* r'\d+'
re_INTEGER(s, p) == IF At(s, p) \in Digit THEN Star(s, p, Digit) ELSE NoMatch

\* ([^\\"]|(\\.))*\" from p: the end of the closing quote, or NoMatch
RECURSIVE re_StringBody(_, _)
re_StringBody(s, p) ==
    IF p >= Len(s) THEN NoMatch
    ELSE IF At(s, p) = "\"" THEN p + 1
    ELSE IF At(s, p) = "\\"
         THEN IF p + 1 < Len(s) /\ At(s, p + 1) # NL
              THEN re_StringBody(s, p + 2)
              ELSE NoMatch
    ELSE re_StringBody(s, p + 1)

\* r'\"([^\\"]|(\\.))*\"'
re_STRING(s, p) == IF At(s, p) = "\"" THEN re_StringBody(s, p + 1) ELSE NoMatch

\* r'[#][^\n]*\n+'
re_comment(s, p) ==
    IF At(s, p) # "#" THEN NoMatch
    ELSE LET e == StarNot(s, p + 1, {NL})
         IN  IF At(s, e) = NL THEN Star(s, e, {NL}) ELSE NoMatch

\* r'\n': one newline only
re_NEWLINE_One(s, p) == IF At(s, p) = NL THEN p + 1 ELSE NoMatch

\* r'\n+'
re_NEWLINE(s, p) == IF At(s, p) = NL THEN Star(s, p, {NL}) ELSE NoMatch

\* r'.*?\n' of the freetext state ('.' matches no newline)
re_freetext_LINE(s, p) ==
    LET e == StarNot(s, p, {NL})
    IN  IF At(s, e) = NL THEN e + 1 ELSE NoMatch

\* the one-character string rules t_LPAR, t_RPAR, t_EQ, t_COMMA, t_COLON
re_Char(s, p, c) == IF At(s, p) = c THEN p + 1 ELSE NoMatch

\* -------------------------------------------------------- Python values

\* A Python value: its type, and the field that holds it.
PyStr(s) == [py |-> "str", s |-> s, b |-> FALSE, n |-> 0]
PyBool(b) == [py |-> "bool", s |-> <<>>, b |-> b, n |-> 0]
PyInt(n) == [py |-> "int", s |-> <<>>, b |-> FALSE, n |-> n]
\* a float is kept as the text that denotes it
PyFloat(s) == [py |-> "float", s |-> s, b |-> FALSE, n |-> 0]
PyNone == [py |-> "NoneType", s |-> <<>>, b |-> FALSE, n |-> 0]

\* bool(x) of a string: a string is true when it is not empty
bool(s) == Len(s) > 0

DigitVal(c) == CHOOSE n \in 0..9 : <<"0","1","2","3","4","5","6","7","8","9">>[n + 1] = c

\* int(x) of a string of decimal digits
RECURSIVE int(_)
int(s) == IF s = <<>> THEN 0
          ELSE 10 * int(SubSeq(s, 1, Len(s) - 1)) + DigitVal(s[Len(s)])

\* ----------------------------------------------------------------- tokens

\* ply's LexToken, as _create_token fills it
_create_token(token_type, value, lineno, lexpos) ==
    [type |-> token_type, value |-> value, lineno |-> lineno, lexpos |-> lexpos]

\* Python's None where a token is expected
None == [type |-> "None", value |-> PyNone, lineno |-> 0, lexpos |-> 0]

KEYWORDS == {
    <<"a","l","i","a","s">>,
    <<"d","o","c">>,
    <<"e","x","a","m","p","l","e">>,
    <<"e","x","t","e","n","d","s">>,
    <<"e","x","t","r","a","s">>,
    <<"i","n","c","l","u","d","e">>,
    <<"n","a","m","e","s","p","a","c","e">>,
    <<"n","u","l","l","a","b","l","e">>,
    <<"o","p">>,
    <<"s","t","r","u","c","t">>,
    <<"u","n","i","o","n">>,
    <<"r","e","q","u","e","s","t">>,
    <<"r","e","s","p","o","n","s","e">>,
    <<"e","r","r","o","r">> }

RESERVED_keys == {
    <<"e","r","r","o","r">>,
    <<"e","x","t","r","a","s">>,
    <<"i","n","c","l","u","d","e">>,
    <<"o","p">>,
    <<"r","e","q","u","e","s","t">>,
    <<"r","e","s","p","o","n","s","e">> }

\* RESERVED[w] for a key w: the word in capitals, one string
RESERVED(w) ==
    CASE w = <<"e","r","r","o","r">> -> "ERROR"
      [] w = <<"e","x","t","r","a","s">> -> "EXTRAS"
      [] w = <<"i","n","c","l","u","d","e">> -> "INCLUDE"
      [] w = <<"o","p">> -> "OP"
      [] w = <<"r","e","q","u","e","s","t">> -> "REQUEST"
      [] w = <<"r","e","s","p","o","n","s","e">> -> "RESPONSE"

\* ------------------------------------------------------- the lexer's state

\* What a rule (or the scan) hands back.
ResToken(t) == [kind |-> "token", tokens |-> <<t>>]
\* MultiToken(tokens)
MultiToken(tokens) == [kind |-> "multi", tokens |-> tokens]
\* the rule returned None: ply goes on scanning
ResSkip == [kind |-> "skip", tokens |-> <<>>]
\* ply reached the end of the input: None
ResNone == [kind |-> "none", tokens |-> <<>>]
\* raise Exception('Indent was not divisible by 4.')
ResRaise == [kind |-> "raise", tokens |-> <<>>]

\* at most one t, however large n is
Times_AtMostOne(t, n) == IF n >= 1 THEN <<t>> ELSE <<>>

\* [t] * n of Python: the empty list when n <= 0
Times(t, n) == [i \in 1..n |-> t]

abs(n) == IF n < 0 THEN -n ELSE n

\* lexdata[p:].splitlines()[0], for p < len(lexdata)
FirstLine(s, p) == Slice(s, p, StarNot(s, p, {NL, "\r"}))

\* len(line) - len(line.lstrip())
LeadingWhitespace(line) == Star(line, 0, PyWhitespace)

\* The lexer: the BabelLexer object's fields and those of its ply lexer
\* (self.lex: lexdata, lexpos, lineno, lexstate, lexstatestack), and the
\* logger's records.  A rule works on this record.
Lexer(data, pos, line, state, stack, indent, queue, last, lg) ==
    [lexdata |-> data, lexpos |-> pos, lineno |-> line, lexstate |-> state,
     lexstatestack |-> stack, cur_indent |-> indent, tokens_queue |-> queue,
     last_token |-> last, log |-> lg]

\* lexer.push_state(state)
push_state(lx, state) ==
    [lx EXCEPT !.lexstatestack = Append(@, lx.lexstate), !.lexstate = state]

\* lexer.pop_state()
pop_state(lx) ==
    [lx EXCEPT !.lexstate = lx.lexstatestack[Len(lx.lexstatestack)],
               !.lexstatestack = SubSeq(@, 1, Len(@) - 1)]

\* value.count("\n")
CountNL(s) == Cardinality({i \in 1..Len(s) : s[i] = NL})

\* ------------------------------------------------------ the rules' bodies
\* A body takes the lexer as ply leaves it when it calls the rule (lexpos
\* already at the end of the match) and the matched token; it gives the
\* lexer afterwards and what the rule returns.

t_BOOLEAN(lx, token) ==
    [lx |-> lx, r |-> ResToken([token EXCEPT !.value = PyBool(bool(token.value.s))])]

t_NULL(lx, token) ==
    [lx |-> lx, r |-> ResToken([token EXCEPT !.value = PyNone])]

t_ID(lx, token) ==
    IF token.value.s \in KEYWORDS
    THEN [lx |-> lx,
          r |-> ResToken([token EXCEPT !.type =
                    IF token.value.s \in RESERVED_keys
                    THEN RESERVED(token.value.s) ELSE "KEYWORD"])]
    ELSE [lx |-> lx, r |-> ResToken(token)]

t_PATH(lx, token) == [lx |-> lx, r |-> ResToken(token)]

\* t_DOUBLE_COLON without `self.cur_indent += 4`
t_DOUBLE_COLON_KeepsIndent(lx, token) ==
    [lx |-> push_state(lx, "freetext"), r |-> ResToken(token)]

\* t_DOUBLE_COLON without `push_state('freetext')`
t_DOUBLE_COLON_StaysNormal(lx, token) ==
    [lx |-> [lx EXCEPT !.cur_indent = @ + 4], r |-> ResToken(token)]

t_DOUBLE_COLON(lx, token) ==
    [lx |-> [push_state(lx, "freetext") EXCEPT !.cur_indent = @ + 4],
     r |-> ResToken(token)]

\* t_freetext_LINE without the `indent_spaces % 4 > 0` test
t_freetext_LINE_Rounds(lx, line_token) ==
    LET lx1 == [lx EXCEPT !.lineno = @ + CountNL(line_token.value.s)]
        next_line_pos == line_token.lexpos + Len(line_token.value.s)
        line == FirstLine(lx.lexdata, next_line_pos)
        indent == LeadingWhitespace(line)
        indent_spaces == indent - lx.cur_indent
        indent_delta == indent_spaces \div 4
        dedent_token ==
            _create_token("DEDENT", PyStr(<<TAB>>), line_token.lineno + 1, next_line_pos)
    IN  IF next_line_pos = Len(lx.lexdata) THEN [lx |-> lx1, r |-> ResToken(line_token)]
        ELSE IF line = <<>> THEN [lx |-> lx1, r |-> ResToken(line_token)]
        ELSE IF indent_delta >= 0 THEN [lx |-> lx1, r |-> ResToken(line_token)]
        ELSE [lx |-> [pop_state(lx1) EXCEPT !.cur_indent = indent],
              r |-> MultiToken(<<line_token>> \o Times(dedent_token, abs(indent_delta)))]

\* t_freetext_LINE that also closes the block at the baseline
t_freetext_LINE_ClosesAtBaseline(lx, line_token) ==
    LET lx1 == [lx EXCEPT !.lineno = @ + CountNL(line_token.value.s)]
        next_line_pos == line_token.lexpos + Len(line_token.value.s)
        line == FirstLine(lx.lexdata, next_line_pos)
        indent == LeadingWhitespace(line)
        indent_spaces == indent - lx.cur_indent
        indent_delta == indent_spaces \div 4
        dedent_token ==
            _create_token("DEDENT", PyStr(<<TAB>>), line_token.lineno + 1, next_line_pos)
    IN  IF next_line_pos = Len(lx.lexdata) THEN [lx |-> lx1, r |-> ResToken(line_token)]
        ELSE IF line = <<>> THEN [lx |-> lx1, r |-> ResToken(line_token)]
        ELSE IF indent_spaces % 4 > 0 THEN [lx |-> lx1, r |-> ResRaise]
        ELSE IF indent_delta > 0 THEN [lx |-> lx1, r |-> ResToken(line_token)]
        ELSE [lx |-> [pop_state(lx1) EXCEPT !.cur_indent = indent],
              r |-> MultiToken(<<line_token>> \o Times(dedent_token, abs(indent_delta)))]

t_freetext_LINE(lx, line_token) ==
    LET lx1 == [lx EXCEPT !.lineno = @ + CountNL(line_token.value.s)]
        next_line_pos == line_token.lexpos + Len(line_token.value.s)
        line == FirstLine(lx.lexdata, next_line_pos)
        indent == LeadingWhitespace(line)
        indent_spaces == indent - lx.cur_indent
        indent_delta == indent_spaces \div 4
        dedent_token ==
            _create_token("DEDENT", PyStr(<<TAB>>), line_token.lineno + 1, next_line_pos)
    IN  IF next_line_pos = Len(lx.lexdata) THEN [lx |-> lx1, r |-> ResToken(line_token)]
        ELSE IF line = <<>> THEN [lx |-> lx1, r |-> ResToken(line_token)]
        ELSE IF indent_spaces % 4 > 0 THEN [lx |-> lx1, r |-> ResRaise]
        ELSE IF indent_delta >= 0 THEN [lx |-> lx1, r |-> ResToken(line_token)]
        ELSE [lx |-> [pop_state(lx1) EXCEPT !.cur_indent = indent],
              r |-> MultiToken(<<line_token>> \o Times(dedent_token, abs(indent_delta)))]

t_FLOAT(lx, token) ==
    [lx |-> lx, r |-> ResToken([token EXCEPT !.value = PyFloat(token.value.s)])]

t_INTEGER(lx, token) ==
    [lx |-> lx, r |-> ResToken([token EXCEPT !.value = PyInt(int(token.value.s))])]

\* the loop of t_STRING over str = t.value[1:-1], from index i
RECURSIVE Unescape(_, _, _)
Unescape(str, i, escaped) ==
    IF i >= Len(str) THEN <<>>
    ELSE LET c == At(str, i)
         IN  IF escaped
             THEN <<(IF c = "n" THEN NL ELSE IF c = "t" THEN TAB ELSE c)>>
                  \o Unescape(str, i + 1, FALSE)
             ELSE IF c = "\\" THEN Unescape(str, i + 1, TRUE)
             ELSE <<c>> \o Unescape(str, i + 1, FALSE)

t_STRING(lx, t) ==
    [lx |-> lx,
     r |-> ResToken([t EXCEPT !.value =
              PyStr(Unescape(Slice(t.value.s, 1, Len(t.value.s) - 1), 0, FALSE))])]

t_comment(lx, token) ==
    [lx |-> [lx EXCEPT !.lineno = @ + CountNL(token.value.s)], r |-> ResSkip]

\* t_NEWLINE without `self.cur_indent = indent`
t_NEWLINE_KeepsIndent(lx, newline_token) ==
    LET lx1 == [lx EXCEPT !.lineno = @ + CountNL(newline_token.value.s)]
        next_line_pos == newline_token.lexpos + Len(newline_token.value.s)
        line == FirstLine(lx.lexdata, next_line_pos)
        indent == LeadingWhitespace(line)
        indent_spaces == indent - lx.cur_indent
        indent_delta == indent_spaces \div 4
        dent_type == IF indent_delta > 0 THEN "INDENT" ELSE "DEDENT"
        dent_token ==
            _create_token(dent_type, PyStr(<<TAB>>), newline_token.lineno + 1, next_line_pos)
    IN  IF next_line_pos = Len(lx.lexdata) THEN [lx |-> lx1, r |-> ResToken(newline_token)]
        ELSE IF line = <<>> THEN [lx |-> lx1, r |-> ResToken(newline_token)]
        ELSE IF indent_spaces % 4 > 0 THEN [lx |-> lx1, r |-> ResRaise]
        ELSE [lx |-> lx1,
              r |-> MultiToken(<<newline_token>> \o Times(dent_token, abs(indent_delta)))]

\* t_NEWLINE without the `indent_spaces % 4 > 0` test
t_NEWLINE_Rounds(lx, newline_token) ==
    LET lx1 == [lx EXCEPT !.lineno = @ + CountNL(newline_token.value.s)]
        next_line_pos == newline_token.lexpos + Len(newline_token.value.s)
        line == FirstLine(lx.lexdata, next_line_pos)
        indent == LeadingWhitespace(line)
        indent_spaces == indent - lx.cur_indent
        indent_delta == indent_spaces \div 4
        dent_type == IF indent_delta > 0 THEN "INDENT" ELSE "DEDENT"
        dent_token ==
            _create_token(dent_type, PyStr(<<TAB>>), newline_token.lineno + 1, next_line_pos)
    IN  IF next_line_pos = Len(lx.lexdata) THEN [lx |-> lx1, r |-> ResToken(newline_token)]
        ELSE IF line = <<>> THEN [lx |-> lx1, r |-> ResToken(newline_token)]
        ELSE [lx |-> [lx1 EXCEPT !.cur_indent = indent],
              r |-> MultiToken(<<newline_token>> \o Times(dent_token, abs(indent_delta)))]

t_NEWLINE(lx, newline_token) ==
    LET lx1 == [lx EXCEPT !.lineno = @ + CountNL(newline_token.value.s)]
        next_line_pos == newline_token.lexpos + Len(newline_token.value.s)
        line == FirstLine(lx.lexdata, next_line_pos)
        indent == LeadingWhitespace(line)
        indent_spaces == indent - lx.cur_indent
        indent_delta == indent_spaces \div 4
        dent_type == IF indent_delta > 0 THEN "INDENT" ELSE "DEDENT"
        dent_token ==
            _create_token(dent_type, PyStr(<<TAB>>), newline_token.lineno + 1, next_line_pos)
    IN  IF next_line_pos = Len(lx.lexdata) THEN [lx |-> lx1, r |-> ResToken(newline_token)]
        ELSE IF line = <<>> THEN [lx |-> lx1, r |-> ResToken(newline_token)]
        ELSE IF indent_spaces % 4 > 0 THEN [lx |-> lx1, r |-> ResRaise]
        ELSE [lx |-> [lx1 EXCEPT !.cur_indent = indent],
              r |-> MultiToken(<<newline_token>> \o Times(dent_token, abs(indent_delta)))]

\* t_error that skips the rest of the input, lexer.skip(len(token.value))
t_error_SkipsRest(lx) ==
    [lx EXCEPT !.log = Append(@, [char |-> At(lx.lexdata, lx.lexpos),
                                  lineno |-> lx.lineno]),
               !.lexpos = Len(lx.lexdata)]

\* t_error (and t_freetext_error): log the character, lexer.skip(1)
t_error(lx) ==
    [lx EXCEPT !.log = Append(@, [char |-> At(lx.lexdata, lx.lexpos),
                                  lineno |-> lx.lineno]),
               !.lexpos = @ + 1]

\* nothing ignored in the freetext state
t_ignore_NormalOnly(state) == IF state = "freetext" THEN {} ELSE {SP, TAB}

\* t_ignore and t_freetext_ignore
t_ignore(state) == {SP, TAB}

\* ------------------------------------------------------- ply's rule table

\* the rules with t_COLON tried before t_DOUBLE_COLON
Rules_ColonFirst(state) ==
    IF state = "freetext" THEN <<"t_freetext_LINE">>
    ELSE <<"t_BOOLEAN", "t_NULL", "t_ID", "t_PATH", "t_COLON", "t_DOUBLE_COLON",
           "t_FLOAT", "t_INTEGER", "t_STRING", "t_comment", "t_NEWLINE",
           "t_LPAR", "t_RPAR", "t_EQ", "t_COMMA">>

\* The rules of a state, in the order of ply's master expression: the
\* functions by line of definition, then the strings by decreasing length
\* of their expression.  freetext is exclusive: it has only its own rule.
Rules(state) ==
    IF state = "freetext" THEN <<"t_freetext_LINE">>
    ELSE <<"t_BOOLEAN", "t_NULL", "t_ID", "t_PATH", "t_DOUBLE_COLON", "t_FLOAT",
           "t_INTEGER", "t_STRING", "t_comment", "t_NEWLINE",
           "t_LPAR", "t_RPAR", "t_EQ", "t_COMMA", "t_COLON">>

\* the end of rule's match at p, or NoMatch
Match(rule, s, p) ==
    CASE rule = "t_BOOLEAN" -> re_BOOLEAN(s, p)
      [] rule = "t_NULL" -> re_NULL(s, p)
      [] rule = "t_ID" -> re_ID(s, p)
      [] rule = "t_PATH" -> re_PATH(s, p)
      [] rule = "t_DOUBLE_COLON" -> re_DOUBLE_COLON(s, p)
      [] rule = "t_freetext_LINE" -> re_freetext_LINE(s, p)
      [] rule = "t_FLOAT" -> re_FLOAT(s, p)
      [] rule = "t_INTEGER" -> re_INTEGER(s, p)
      [] rule = "t_STRING" -> re_STRING(s, p)
      [] rule = "t_comment" -> re_comment(s, p)
      [] rule = "t_NEWLINE" -> re_NEWLINE(s, p)
      [] rule = "t_LPAR" -> re_Char(s, p, "(")
      [] rule = "t_RPAR" -> re_Char(s, p, ")")
      [] rule = "t_EQ" -> re_Char(s, p, "=")
      [] rule = "t_COMMA" -> re_Char(s, p, ",")
      [] rule = "t_COLON" -> re_Char(s, p, ":")

\* the token type ply gives the match of a rule: the rule's name less t_
\* (and less the state)
TypeOf(rule) ==
    CASE rule = "t_BOOLEAN" -> "BOOLEAN"
      [] rule = "t_NULL" -> "NULL"
      [] rule = "t_ID" -> "ID"
      [] rule = "t_PATH" -> "PATH"
      [] rule = "t_DOUBLE_COLON" -> "DOUBLE_COLON"
      [] rule = "t_freetext_LINE" -> "LINE"
      [] rule = "t_FLOAT" -> "FLOAT"
      [] rule = "t_INTEGER" -> "INTEGER"
      [] rule = "t_STRING" -> "STRING"
      [] rule = "t_comment" -> "comment"
      [] rule = "t_NEWLINE" -> "NEWLINE"
      [] rule = "t_LPAR" -> "LPAR"
      [] rule = "t_RPAR" -> "RPAR"
      [] rule = "t_EQ" -> "EQ"
      [] rule = "t_COMMA" -> "COMMA"
      [] rule = "t_COLON" -> "COLON"

\* the rule's body applied; a string rule returns its token as matched
Apply(rule, lx, tok) ==
    CASE rule = "t_BOOLEAN" -> t_BOOLEAN(lx, tok)
      [] rule = "t_NULL" -> t_NULL(lx, tok)
      [] rule = "t_ID" -> t_ID(lx, tok)
      [] rule = "t_PATH" -> t_PATH(lx, tok)
      [] rule = "t_DOUBLE_COLON" -> t_DOUBLE_COLON(lx, tok)
      [] rule = "t_freetext_LINE" -> t_freetext_LINE(lx, tok)
      [] rule = "t_FLOAT" -> t_FLOAT(lx, tok)
      [] rule = "t_INTEGER" -> t_INTEGER(lx, tok)
      [] rule = "t_STRING" -> t_STRING(lx, tok)
      [] rule = "t_comment" -> t_comment(lx, tok)
      [] rule = "t_NEWLINE" -> t_NEWLINE(lx, tok)
      [] OTHER -> [lx |-> lx, r |-> ResToken(tok)]

\* the first rule of the state that matches at p, "" when none does
FirstMatch(state, s, p) ==
    LET rs == Rules(state)
        hit == {i \in 1..Len(rs) : Match(rs[i], s, p) # NoMatch}
    IN  IF hit = {} THEN ""
        ELSE rs[CHOOSE i \in hit : \A j \in hit : i <= j]

\* One turn of the loop of ply's Lexer.token() with lexpos inside the
\* input: an ignored character is passed, or the first matching rule is
\* applied, or t_error is called.  Gives the lexer afterwards, what the
\* turn returns (ResSkip: the loop goes on) and the rule that ran.
ScanStep(lx) ==
    LET s == lx.lexdata
        p == lx.lexpos
        rule == FirstMatch(lx.lexstate, s, p)
        tok == _create_token(TypeOf(rule), PyStr(Slice(s, p, Match(rule, s, p))),
                             lx.lineno, p)
    IN  IF At(s, p) \in t_ignore(lx.lexstate)
        THEN [lx |-> [lx EXCEPT !.lexpos = p + 1], r |-> ResSkip, rule |-> "t_ignore"]
        ELSE IF rule = ""
        THEN [lx |-> t_error(lx), r |-> ResSkip, rule |-> "t_error"]
        ELSE LET a == Apply(rule, [lx EXCEPT !.lexpos = Match(rule, s, p)], tok)
             IN  [lx |-> a.lx, r |-> a.r, rule |-> rule]

\* ply's Lexer.token(): the loop until a rule returns a token (or raises),
\* or the input is used up: then lexpos moves one further and None is
\* returned.
RECURSIVE lex_token(_)
\* the loop after a turn st: on, unless the turn returned something
lex_loop(st) == IF st.r.kind = "skip" THEN lex_token(st.lx) ELSE st

lex_token(lx) ==
    IF lx.lexpos >= Len(lx.lexdata)
    THEN [lx |-> [lx EXCEPT !.lexpos = @ + 1], r |-> ResNone, rule |-> ""]
    ELSE lex_loop(ScanStep(lx))

\* ------------------------------------------------------ BabelLexer.token()

\* the closing started only once None has been returned
NeedsClosing_AfterNone(lx, r) ==
    r = None /\ lx.cur_indent > 0 /\ lx.last_token = None

\* the closing at every end of input, whatever cur_indent is
NeedsClosing_AtEveryEnd(lx, r) == r = None

\* the test that starts the end-of-input closing in token()
NeedsClosing(lx, r) == r = None /\ lx.cur_indent > 0

\* token() whose closing at the end of the input goes back to INITIAL
token_lex_CloseToNormal(st) ==
    LET r == IF st.r.kind = "none" THEN None ELSE st.r.tokens[1]
        newline_token ==
            _create_token("NEWLINE", PyStr(<<NL>>), st.lx.lineno, st.lx.lexpos)
        dedent_count == st.lx.cur_indent \div 4
        dedent_token ==
            _create_token("DEDENT", PyStr(<<TAB>>), st.lx.lineno, st.lx.lexpos)
        closing ==
            (IF st.lx.last_token # None
                /\ st.lx.last_token.type \notin {"NEWLINE", "LINE"}
             THEN <<newline_token>> ELSE <<>>)
            \o Times(dedent_token, dedent_count)
    IN  IF st.r.kind = "raise"
        THEN [lx |-> st.lx, exc |-> "Exception", via |-> "scan", rule |-> st.rule]
        ELSE IF st.r.kind = "multi"
        THEN [lx |-> [st.lx EXCEPT !.last_token = Head(st.r.tokens),
                                   !.tokens_queue = Tail(st.r.tokens)],
              exc |-> "", via |-> "scan", rule |-> st.rule]
        ELSE IF NeedsClosing(st.lx, r)
        THEN IF closing = <<>>
             \* tokens_queue.pop(0) of an empty list
             THEN [lx |-> [st.lx EXCEPT !.cur_indent = 0],
                   exc |-> "IndexError", via |-> "close", rule |-> ""]
             ELSE [lx |-> [st.lx EXCEPT !.cur_indent = 0,
                                        !.lexstate = "INITIAL",
                                        !.lexstatestack = <<>>,
                                        !.last_token = Head(closing),
                                        !.tokens_queue = Tail(closing)],
                   exc |-> "", via |-> "close", rule |-> ""]
        ELSE [lx |-> [st.lx EXCEPT !.last_token = r],
              exc |-> "", via |-> IF r = None THEN "eos" ELSE "scan",
              rule |-> st.rule]

\* token() that closes the indentation without the NEWLINE token
token_lex_NoNewline(st) ==
    LET r == IF st.r.kind = "none" THEN None ELSE st.r.tokens[1]
        dedent_count == st.lx.cur_indent \div 4
        dedent_token ==
            _create_token("DEDENT", PyStr(<<TAB>>), st.lx.lineno, st.lx.lexpos)
        closing == Times(dedent_token, dedent_count)
    IN  IF st.r.kind = "raise"
        THEN [lx |-> st.lx, exc |-> "Exception", via |-> "scan", rule |-> st.rule]
        ELSE IF st.r.kind = "multi"
        THEN [lx |-> [st.lx EXCEPT !.last_token = Head(st.r.tokens),
                                   !.tokens_queue = Tail(st.r.tokens)],
              exc |-> "", via |-> "scan", rule |-> st.rule]
        ELSE IF NeedsClosing(st.lx, r)
        THEN IF closing = <<>>
             \* tokens_queue.pop(0) of an empty list
             THEN [lx |-> [st.lx EXCEPT !.cur_indent = 0],
                   exc |-> "IndexError", via |-> "close", rule |-> ""]
             ELSE [lx |-> [st.lx EXCEPT !.cur_indent = 0,
                                        !.last_token = Head(closing),
                                        !.tokens_queue = Tail(closing)],
                   exc |-> "", via |-> "close", rule |-> ""]
        ELSE [lx |-> [st.lx EXCEPT !.last_token = r],
              exc |-> "", via |-> IF r = None THEN "eos" ELSE "scan",
              rule |-> st.rule]

\* What token() gives, st being what self.lex.token() gave: the lexer
\* afterwards, the exception raised ("" when it returned; the value
\* returned is then last_token), where the value came from (via) and, for
\* a scan, the rule that ended it.
token_lex(st) ==
    LET r == IF st.r.kind = "none" THEN None ELSE st.r.tokens[1]
        newline_token ==
            _create_token("NEWLINE", PyStr(<<NL>>), st.lx.lineno, st.lx.lexpos)
        dedent_count == st.lx.cur_indent \div 4
        dedent_token ==
            _create_token("DEDENT", PyStr(<<TAB>>), st.lx.lineno, st.lx.lexpos)
        closing ==
            (IF st.lx.last_token # None
                /\ st.lx.last_token.type \notin {"NEWLINE", "LINE"}
             THEN <<newline_token>> ELSE <<>>)
            \o Times(dedent_token, dedent_count)
    IN  IF st.r.kind = "raise"
        THEN [lx |-> st.lx, exc |-> "Exception", via |-> "scan", rule |-> st.rule]
        ELSE IF st.r.kind = "multi"
        THEN [lx |-> [st.lx EXCEPT !.last_token = Head(st.r.tokens),
                                   !.tokens_queue = Tail(st.r.tokens)],
              exc |-> "", via |-> "scan", rule |-> st.rule]
        ELSE IF NeedsClosing(st.lx, r)
        THEN IF closing = <<>>
             \* tokens_queue.pop(0) of an empty list
             THEN [lx |-> [st.lx EXCEPT !.cur_indent = 0],
                   exc |-> "IndexError", via |-> "close", rule |-> ""]
             ELSE [lx |-> [st.lx EXCEPT !.cur_indent = 0,
                                        !.last_token = Head(closing),
                                        !.tokens_queue = Tail(closing)],
                   exc |-> "", via |-> "close", rule |-> ""]
        ELSE [lx |-> [st.lx EXCEPT !.last_token = r],
              exc |-> "", via |-> IF r = None THEN "eos" ELSE "scan",
              rule |-> st.rule]

\* token() without the `if self.tokens_queue` branch: it always scans
token_AlwaysScans(lx) == token_lex(lex_token(lx))

\* token(): the head of the queue, or what self.lex.token() leads to
token(lx) ==
    IF lx.tokens_queue # <<>>
    THEN [lx |-> [lx EXCEPT !.last_token = Head(lx.tokens_queue),
                            !.tokens_queue = Tail(@)],
          exc |-> "", via |-> "queue", rule |-> ""]
    ELSE token_lex(lex_token(lx))

\* BabelLexer(): no ply lexer yet (no input, position 0), no token
NewLexer == Lexer(<<>>, 0, 0, "INITIAL", <<>>, 0, <<>>, None, <<>>)

\* input() that appends '\n' only to a document that does not end in one
input_AppendsWhenMissing(lx, file_data) ==
    [lx EXCEPT !.lexdata = IF file_data # <<>> /\ file_data[Len(file_data)] = NL
                           THEN file_data ELSE file_data \o <<NL>>,
               !.lexpos = 0, !.lineno = 1,
               !.lexstate = "INITIAL", !.lexstatestack = <<>>,
               !.tokens_queue = <<>>, !.cur_indent = 0]

\* the lexer input() leaves: a new ply lexer over file_data + '\n', an
\* empty queue, indentation 0; last_token is not touched
input(lx, file_data) ==
    [lx EXCEPT !.lexdata = file_data \o <<NL>>, !.lexpos = 0, !.lineno = 1,
               !.lexstate = "INITIAL", !.lexstatestack = <<>>,
               !.tokens_queue = <<>>, !.cur_indent = 0]

\* -------------------------------------------------------------- documents

RECURSIVE Flatten(_)
Flatten(ps) == IF ps = <<>> THEN <<>> ELSE Head(ps) \o Flatten(Tail(ps))

\* the documents made of at most n pieces
DocsOf(Pieces, n) ==
    {Flatten(ps) : ps \in UNION {[1..k -> Pieces] : k \in 0..n}}

\* lines, indentation by 4 and by 2, a word, a comment, free text
IndentPieces == {<<NL>>, <<SP, SP, SP, SP>>, <<SP, SP>>, <<"a">>, <<"#">>, <<":", ":">>}

\* words, a digit, characters no rule matches, punctuation
WordPieces == {<<"t","r","u","e">>, <<"f","a","l","s","e">>, <<"n","u","l","l">>,
               <<"1">>, <<"@">>, <<"-">>, <<"x">>, <<":">>, <<SP>>, <<TAB>>, <<NL>>}

Docs == DocsOf(IndentPieces, MaxIndentPieces) \cup DocsOf(WordPieces, MaxWordPieces)

\* ------------------------------------------------------------------ state

VARIABLES
    file_data,      \* the document input() was called with
    lexdata,        \* self.lex.lexdata
    lexpos,         \* self.lex.lexpos
    lineno,         \* self.lex.lineno
    lexstate,       \* self.lex.lexstate: "INITIAL" or "freetext"
    lexstatestack,  \* self.lex.lexstatestack
    cur_indent,     \* self.cur_indent
    tokens_queue,   \* self.tokens_queue
    last_token,     \* self.last_token
    log,            \* what self._logger.error was called with
    pc,             \* the caller: "new", "input", then how the last token()
                    \* ended: "token", "eos" (it returned None), "raised"
    out,            \* the tokens token() has returned, in order
    ev              \* the last call of token(): via, rule, and the lexer before it

lexvars == <<file_data, lexdata, lexpos, lineno, lexstate, lexstatestack, cur_indent,
             tokens_queue, last_token, log, pc, out, ev>>

\* the lexer as a record
Self == Lexer(lexdata, lexpos, lineno, lexstate, lexstatestack, cur_indent,
              tokens_queue, last_token, log)

SetSelf(lx) ==
    /\ lexdata' = lx.lexdata
    /\ lexpos' = lx.lexpos
    /\ lineno' = lx.lineno
    /\ lexstate' = lx.lexstate
    /\ lexstatestack' = lx.lexstatestack
    /\ cur_indent' = lx.cur_indent
    /\ tokens_queue' = lx.tokens_queue
    /\ last_token' = lx.last_token
    /\ log' = lx.log

NoEvent == [via |-> "", rule |-> "", exc |-> "", pre |-> NewLexer]

\* ------------------------------------------------------------ whole scans

\* The tokens that repeated token() calls return from the lexer lx on, up
\* to end-of-stream (None) or an exception: the tokens, the exception ("" when
\* the scan ended with None) and the lexer at the end.
RECURSIVE Run(_)
Run(lx) ==
    LET t == token(lx)
    IN  IF t.exc # "" THEN [out |-> <<>>, exc |-> t.exc, lx |-> t.lx]
        ELSE IF t.lx.last_token = None THEN [out |-> <<>>, exc |-> "", lx |-> t.lx]
        ELSE LET rest == Run(t.lx)
             IN  [out |-> <<t.lx.last_token>> \o rest.out, exc |-> rest.exc,
                  lx |-> rest.lx]

\* the scan of a document by a new lexer
Tokenize(d) == Run(input(NewLexer, d))

\* a token's kind and text
KindText(tok) == <<tok.type, tok.value>>
KindTexts(toks) == [i \in 1..Len(toks) |-> KindText(toks[i])]
Kinds(toks) == [i \in 1..Len(toks) |-> toks[i].type]

\* ======================================================== the data types
\* babel_data_types.py.  The module runs under Python 2 and Python 3 (six):
\* the variable PY3 tells which.
\*
\* An integer is three digits <<h, m, l>> standing for h*2^62 + m*2^31 + l
\* with 0 <= m, l < 2^31, as the bounds of the 64-bit types are past the
\* integers of the model checker; integers compare digit by digit.

\* 2**31 - 1, the largest digit
TwoTo31Minus1 == 2147483647

IntLess(a, b) ==
    \/ a[1] < b[1]
    \/ a[1] = b[1] /\ a[2] < b[2]
    \/ a[1] = b[1] /\ a[2] = b[2] /\ a[3] < b[3]
IntLeq(a, b) == a = b \/ IntLess(a, b)

Zero == <<0, 0, 0>>
One == <<0, 0, 1>>
\* n - 1 and n + 1
Pred(n) == IF n[3] > 0 THEN <<n[1], n[2], n[3] - 1>>
           ELSE IF n[2] > 0 THEN <<n[1], n[2] - 1, TwoTo31Minus1>>
           ELSE <<n[1] - 1, TwoTo31Minus1, TwoTo31Minus1>>
Succ(n) == IF n[3] < TwoTo31Minus1 THEN <<n[1], n[2], n[3] + 1>>
           ELSE IF n[2] < TwoTo31Minus1 THEN <<n[1], n[2] + 1, 0>>
           ELSE <<n[1] + 1, 0, 0>>

\* A Python value of the data types' world: its type (py: "bool", "int",
\* "float", "text" (str of Python 3, unicode of Python 2), "bytes" (bytes of
\* Python 3, str of Python 2), "datetime", "list", "tuple", "NoneType", or
\* the name of a generated class), its integer, its length, whether its
\* bytes are valid utf-8, its items, the attributes it has, its _tag.
Value(py, int_, len_, utf8, items, attrs, tag) ==
    [py |-> py, int |-> int_, len |-> len_, utf8 |-> utf8, items |-> items,
     attrs |-> attrs, tag |-> tag]

VNone == Value("NoneType", Zero, 0, TRUE, <<>>, {}, "")
VBool(b) == Value("bool", IF b THEN One ELSE Zero, 0, TRUE, <<>>, {}, "")
VInt(n) == Value("int", n, 0, TRUE, <<>>, {}, "")
VFloat == Value("float", Zero, 0, TRUE, <<>>, {}, "")
VText(n) == Value("text", Zero, n, TRUE, <<>>, {}, "")
VBytes(n, utf8) == Value("bytes", Zero, n, utf8, <<>>, {}, "")
VDatetime == Value("datetime", Zero, 0, TRUE, <<>>, {}, "")
VList(py, items) == Value(py, Zero, Len(items), TRUE, items, {}, "")
VObject(cls, attrs, tag) == Value(cls, Zero, 0, TRUE, <<>>, attrs, tag)

\* isinstance(v, numbers.Integral): bool is a subclass of int
IsIntegral(v) == v.py \in {"bool", "int"}
\* isinstance(v, six.string_types): basestring under Python 2
IsString(py3, v) == v.py = "text" \/ (~py3 /\ v.py = "bytes")

\* the generated classes of the model and their _fields_ names
ClassFields(cls) == IF cls = "Foo" THEN {"a", "b"} ELSE {"x"}

\* A DataType object: its class and its attributes.
DataType(cls, minimum, maximum, min_length, max_length, elem, data_type) ==
    [cls |-> cls, minimum |-> minimum, maximum |-> maximum,
     min_length |-> min_length, max_length |-> max_length, elem |-> elem,
     data_type |-> data_type]

\* None as a length or an item count
NoLen == 0 - 1

Plain(cls) == DataType(cls, Zero, Zero, NoLen, NoLen, "", "")

IntegerClasses == {"Int32", "UInt32", "Int64", "UInt64"}

\* the class variable minimum: -2**31, 0, -2**63, 0
ClassMinimum(cls) ==
    CASE cls = "Int32" -> <<0 - 1, TwoTo31Minus1, 0>>
      [] cls = "UInt32" -> Zero
      [] cls = "Int64" -> <<0 - 2, 0, 0>>
      [] cls = "UInt64" -> Zero

\* the class variable maximum: 2**31 - 1, 2**32 - 1, 2**63 - 1, 2**64 - 1
ClassMaximum(cls) ==
    CASE cls = "Int32" -> <<0, 0, TwoTo31Minus1>>
      [] cls = "UInt32" -> <<0, 1, TwoTo31Minus1>>
      [] cls = "Int64" -> <<1, TwoTo31Minus1, TwoTo31Minus1>>
      [] cls = "UInt64" -> <<3, TwoTo31Minus1, TwoTo31Minus1>>

\* What a constructor gives: the exception it raised ("" when none) and
\* the object.

\* _Integer.__init__(self, min_value, max_value) of class cls
Integer_init(cls, min_value, max_value) ==
    LET o0 == [Plain(cls) EXCEPT !.minimum = ClassMinimum(cls),
                                 !.maximum = ClassMaximum(cls)]
        o1 == IF min_value # VNone THEN [o0 EXCEPT !.minimum = min_value.int] ELSE o0
        o2 == IF max_value # VNone THEN [o1 EXCEPT !.maximum = max_value.int] ELSE o1
    IN  IF min_value # VNone /\ ~IsIntegral(max_value)
        THEN [exc |-> "AssertionError", obj |-> o0]
        ELSE IF min_value # VNone /\ IntLess(min_value.int, o0.minimum)
        THEN [exc |-> "ValueError", obj |-> o0]
        ELSE IF max_value # VNone /\ ~IsIntegral(max_value)
        THEN [exc |-> "AssertionError", obj |-> o1]
        ELSE IF max_value # VNone /\ IntLess(o1.maximum, max_value.int)
        THEN [exc |-> "ValueError", obj |-> o1]
        ELSE [exc |-> "", obj |-> o2]

\* the assertions String.__init__ (without pattern), Binary.__init__ and
\* List.__init__ make on their two bounds (None: NoLen)
LengthsAsserted(min_length, max_length) ==
    /\ min_length # NoLen => min_length >= 0
    /\ max_length # NoLen => max_length > 0

\* String.__init__(self, min_length, max_length, pattern=None): the two
\* bounds are compared only when both are true values
String_init(min_length, max_length) ==
    LET o == [Plain("String") EXCEPT !.min_length = min_length,
                                     !.max_length = max_length]
    IN  IF ~LengthsAsserted(min_length, max_length)
        THEN [exc |-> "AssertionError", obj |-> o]
        ELSE IF min_length \notin {NoLen, 0} /\ max_length \notin {NoLen, 0}
                /\ ~(max_length >= min_length)
        THEN [exc |-> "AssertionError", obj |-> o]
        ELSE [exc |-> "", obj |-> o]

\* Binary.__init__(self, min_length, max_length)
Binary_init(min_length, max_length) ==
    LET o == [Plain("Binary") EXCEPT !.min_length = min_length,
                                     !.max_length = max_length]
    IN  IF ~LengthsAsserted(min_length, max_length)
        THEN [exc |-> "AssertionError", obj |-> o]
        ELSE IF min_length # NoLen /\ max_length # NoLen /\ ~(max_length >= min_length)
        THEN [exc |-> "AssertionError", obj |-> o]
        ELSE [exc |-> "", obj |-> o]

\* List.__init__(self, data_type, min_items, max_items); the item type is
\* kept by the name of its class (a type made without arguments)
List_init(elem, min_items, max_items) ==
    LET o == [Plain("List") EXCEPT !.min_length = min_items,
                                   !.max_length = max_items, !.elem = elem]
    IN  IF ~LengthsAsserted(min_items, max_items)
        THEN [exc |-> "AssertionError", obj |-> o]
        ELSE IF min_items # NoLen /\ max_items # NoLen /\ ~(max_items >= min_items)
        THEN [exc |-> "AssertionError", obj |-> o]
        ELSE [exc |-> "", obj |-> o]

\* CompositeType.__init__(self, data_type), for Struct and Union
Composite_init(cls, data_type) ==
    [exc |-> "", obj |-> [Plain(cls) EXCEPT !.data_type = data_type]]

\* What validate gives: "None" when it returns, else the exception raised.

\* Boolean.validate; '%r ...' % val takes a tuple val as the arguments
Boolean_validate(self, val) ==
    IF val.py # "bool"
    THEN IF val.py = "tuple" /\ val.len # 1 THEN "TypeError" ELSE "ValueError"
    ELSE "None"

\* _Integer.validate
Integer_validate(self, val) ==
    IF ~IsIntegral(val) THEN "ValidationError"
    ELSE IF ~(IntLeq(self.minimum, val.int) /\ IntLeq(val.int, self.maximum))
    THEN "ValidationError"
    ELSE "None"

\* String.validate, of a String without pattern
String_validate(py3, self, val) ==
    IF ~IsString(py3, val) THEN "ValidationError"
    ELSE IF self.max_length # NoLen /\ val.len > self.max_length THEN "ValidationError"
    ELSE IF self.min_length # NoLen /\ val.len < self.min_length THEN "ValidationError"
    ELSE IF ~py3 /\ val.py = "bytes" /\ ~val.utf8 THEN "ValidationError"
    ELSE "None"

\* Binary.validate; the message of the first length test has three
\* conversions and two arguments
Binary_validate(self, val) ==
    IF val.py # "bytes" THEN "ValidationError"
    ELSE IF self.max_length # NoLen /\ val.len > self.max_length THEN "TypeError"
    ELSE IF self.min_length # NoLen /\ val.len < self.min_length THEN "ValidationError"
    ELSE "None"

\* Timestamp.validate
Timestamp_validate(self, val) ==
    IF val.py # "datetime" THEN "ValueError" ELSE "None"

\* CompositeType.validate_type_only
validate_type_only(self, val) ==
    IF val.py # self.data_type THEN "ValidationError" ELSE "None"

\* Struct.validate
Struct_validate(self, val) ==
    IF validate_type_only(self, val) # "None" THEN "ValidationError"
    ELSE IF \E f \in ClassFields(self.data_type) : f \notin val.attrs
    THEN "ValidationError"
    ELSE "None"

\* Union.validate
Union_validate(self, val) ==
    IF validate_type_only(self, val) # "None" THEN "ValidationError"
    ELSE IF val.tag = "" THEN "ValidationError"
    ELSE "None"

\* Any.validate
Any_validate(self, val) == "None"

\* Symbol.validate
Symbol_validate(self, val) == "AssertionError"

\* validate of a type that is not a List
Scalar_validate(py3, self, val) ==
    CASE self.cls = "Boolean" -> Boolean_validate(self, val)
      [] self.cls \in IntegerClasses -> Integer_validate(self, val)
      [] self.cls = "String" -> String_validate(py3, self, val)
      [] self.cls = "Binary" -> Binary_validate(self, val)
      [] self.cls = "Timestamp" -> Timestamp_validate(self, val)
      [] self.cls = "Struct" -> Struct_validate(self, val)
      [] self.cls = "Union" -> Union_validate(self, val)
      [] self.cls = "Any" -> Any_validate(self, val)
      [] self.cls = "Symbol" -> Symbol_validate(self, val)

\* the type made by calling the class elem without arguments
ItemType(elem) ==
    IF elem \in IntegerClasses THEN Integer_init(elem, VNone, VNone).obj
    ELSE Plain(elem)

\* List.validate: the items are validated in order, the first exception
\* ends it
List_validate(py3, self, val) ==
    IF val.py \notin {"tuple", "list"} THEN "ValidationError"
    ELSE IF self.max_length # NoLen /\ val.len > self.max_length THEN "ValidationError"
    ELSE IF self.min_length # NoLen /\ val.len < self.min_length THEN "ValidationError"
    ELSE LET bad == {i \in 1..Len(val.items) :
                        Scalar_validate(py3, ItemType(self.elem), val.items[i]) # "None"}
         IN  IF bad = {} THEN "None"
             ELSE Scalar_validate(py3, ItemType(self.elem),
                      val.items[CHOOSE i \in bad : \A j \in bad : i <= j])

\* self.validate(val)
validate(py3, self, val) ==
    IF self.cls = "List" THEN List_validate(py3, self, val)
    ELSE Scalar_validate(py3, self, val)

\* -------------------------------------------- the data types' state machine

\* lengths and item counts are at most this
MaxLen == 2

VARIABLES
    PY3,        \* six.PY3
    obj,        \* the DataType object made
    args,       \* the arguments it was made with
    exc,        \* the exception its constructor raised, "" when none
    val,        \* the value validate was called with
    result,     \* what validate gave: "None", or the exception it raised
    tpc         \* "none", then "made" or "failed", then "validated"

typevars == <<PY3, obj, args, exc, val, result, tpc>>

vars == <<lexvars, typevars>>

\* a new lexer and no data type; the lexer is Python 2 code
LexInit ==
    /\ file_data = <<>>
    /\ lexdata = <<>>
    /\ lexpos = 0
    /\ lineno = 0
    /\ lexstate = "INITIAL"
    /\ lexstatestack = <<>>
    /\ cur_indent = 0
    /\ tokens_queue = <<>>
    /\ last_token = None
    /\ log = <<>>
    /\ pc = "new"
    /\ out = <<>>
    /\ ev = NoEvent
    /\ PY3 = FALSE
    /\ obj = Plain("")
    /\ args = <<VNone, VNone>>
    /\ exc = ""
    /\ val = VNone
    /\ result = ""
    /\ tpc = "none"

\* no data type yet, under either Python; the lexer is not used
TypesInit ==
    /\ file_data = <<>>
    /\ lexdata = <<>>
    /\ lexpos = 0
    /\ lineno = 0
    /\ lexstate = "INITIAL"
    /\ lexstatestack = <<>>
    /\ cur_indent = 0
    /\ tokens_queue = <<>>
    /\ last_token = None
    /\ log = <<>>
    /\ pc = "new"
    /\ out = <<>>
    /\ ev = NoEvent
    /\ PY3 \in BOOLEAN
    /\ obj = Plain("")
    /\ args = <<VNone, VNone>>
    /\ exc = ""
    /\ val = VNone
    /\ result = ""
    /\ tpc = "none"

\* the integers tried as bounds and values of class cls: around its range
IntPoints(cls) ==
    {Pred(ClassMinimum(cls)), ClassMinimum(cls), Zero, <<0, 0, 5>>,
     ClassMaximum(cls), Succ(ClassMaximum(cls))}

Lengths == {NoLen} \cup 0..MaxLen

\* the values validate is tried on
Items == {VBool(TRUE), VInt(One), VText(1), VNone}
Values ==
    {VNone, VBool(TRUE), VBool(FALSE), VFloat, VDatetime}
    \cup {VInt(n) : n \in UNION {IntPoints(c) : c \in IntegerClasses}}
    \cup {VText(n) : n \in 0..(MaxLen + 1)}
    \cup {VBytes(n, u) : n \in 0..(MaxLen + 1), u \in BOOLEAN}
    \cup {VList(py, items) : py \in {"list", "tuple"},
                             items \in UNION {[1..k -> Items] : k \in 0..MaxLen}}
    \cup {VObject("Foo", attrs, "") : attrs \in SUBSET {"a", "b"}}
    \cup {VObject("Bar", {"x"}, tag) : tag \in {"", "x"}}

\* what a constructor leaves: the object, or the exception it raised
Made(r, a) ==
    /\ obj' = r.obj
    /\ exc' = r.exc
    /\ args' = a
    /\ tpc' = IF r.exc = "" THEN "made" ELSE "failed"

\* Int32(...), UInt32(...), Int64(...), UInt64(...)
NewInteger ==
    /\ tpc = "none"
    /\ \E cls \in IntegerClasses :
           \E min_value, max_value \in {VNone} \cup {VInt(n) : n \in IntPoints(cls)} :
               Made(Integer_init(cls, min_value, max_value), <<min_value, max_value>>)
    /\ UNCHANGED <<PY3, val, result>>
    /\ UNCHANGED lexvars

\* String(...), Binary(...), List(...)
NewSized ==
    /\ tpc = "none"
    /\ \E lo, hi \in Lengths :
           \E r \in {String_init(lo, hi), Binary_init(lo, hi)}
                    \cup {List_init(elem, lo, hi) :
                             elem \in {"Boolean", "Int32", "String", "Any", "Symbol"}} :
               Made(r, <<VNone, VNone>>)
    /\ UNCHANGED <<PY3, val, result>>
    /\ UNCHANGED lexvars

\* Boolean(), Timestamp(format), Struct(Foo), Union(Bar), Any(), Symbol()
NewPlain ==
    /\ tpc = "none"
    /\ \E r \in {[exc |-> "", obj |-> Plain(cls)] :
                    cls \in {"Boolean", "Timestamp", "Any", "Symbol"}}
                \cup {Composite_init("Struct", "Foo"), Composite_init("Union", "Bar")} :
           Made(r, <<VNone, VNone>>)
    /\ UNCHANGED <<PY3, val, result>>
    /\ UNCHANGED lexvars

\* obj.validate(v)
Validate ==
    /\ tpc = "made"
    /\ \E v \in Values :
           /\ val' = v
           /\ result' = validate(PY3, obj, v)
    /\ tpc' = "validated"
    /\ UNCHANGED <<PY3, obj, args, exc>>
    /\ UNCHANGED lexvars

TypesNext == NewInteger \/ NewSized \/ NewPlain \/ Validate

SpecTypes == TypesInit /\ [][TypesNext]_vars

\* lexer.input(file_data) for some document, once per lexer
Input ==
    /\ pc = "new"
    /\ \E d \in Docs : file_data' = d /\ SetSelf(input(Self, d))
    /\ pc' = "input"
    /\ UNCHANGED <<out, ev>>
    /\ UNCHANGED typevars

\* lexer.token(); a caller stops at an exception
Token ==
    /\ pc \in {"input", "token", "eos"}
    /\ lexpos < Len(lexdata) + MaxEofCalls
    /\ \E t \in {token(Self)} :
           /\ SetSelf(t.lx)
           /\ pc' = IF t.exc # "" THEN "raised"
                    ELSE IF t.lx.last_token = None THEN "eos" ELSE "token"
           /\ out' = IF t.exc = "" /\ t.lx.last_token # None
                     THEN Append(out, t.lx.last_token) ELSE out
           /\ UNCHANGED file_data
           /\ ev' = [via |-> t.via, rule |-> t.rule, exc |-> t.exc, pre |-> Self]
    /\ UNCHANGED typevars

LexNext == Input \/ Token

Spec == LexInit /\ [][LexNext]_vars

\* token() can be called: the guard of Token
TokenEnabled ==
    /\ pc \in {"input", "token", "eos"}
    /\ lexpos < Len(lexdata) + MaxEofCalls

\* The caller's loop of test(): token() is called again as long as it can
\* be.  The condition is weak fairness of Token, WF_vars(Token), written
\* out with the guard of Token for ENABLED <<Token>>_vars (a call always
\* changes the state: it returns a token, moves lexpos or raises).
SpecLive ==
    /\ LexInit
    /\ [][LexNext]_vars
    /\ ([]<>(~TokenEnabled) \/ []<><<Token>>_vars)

\* ----------------------------------------------------------------- claims

\* the number of tokens of a type among toks
Count(toks, type) == Cardinality({i \in 1..Len(toks) : toks[i].type = type})

\* C1 as stated: at end-of-stream the INDENT tokens returned are as many as
\* the DEDENT tokens returned, with or without `::` blocks.
C1_IndentEqualsDedent ==
    pc = "eos" => Count(out, "INDENT") = Count(out, "DEDENT")

\* C1, amended: at end-of-stream the DEDENT tokens returned are as many as
\* the INDENT tokens plus the DOUBLE_COLON tokens returned (`::` raises the
\* indentation by one level without an INDENT token), so INDENT and DEDENT
\* balance in a document without `::`.
C1_DedentBalancesIndentAndDoubleColon ==
    pc = "eos" =>
        Count(out, "DEDENT") = Count(out, "INDENT") + Count(out, "DOUBLE_COLON")

\* a document with an indented line and a `::` block, closed at end of input
C1_Witness ==
    /\ pc = "eos"
    /\ Count(out, "INDENT") >= 1
    /\ Count(out, "DOUBLE_COLON") >= 1
    /\ ev.pre.lexstate = "freetext"

\* the cursor stands at the first character of a line
AtLineStart == lexpos = 0 \/ At(lexdata, lexpos - 1) = NL

\* the number of leading space characters of a line
LeadingSpaces(line) == Star(line, 0, {SP})

\* C2 as stated: wherever a line stands in the document, when the count of
\* its leading spaces differs from indent_width by no multiple of 4, the
\* call of token() that reaches the line raises the Bad-Indentation error.
C2_MisalignedLineFails ==
    ( /\ pc \in {"input", "token"}
      /\ tokens_queue = <<>>
      /\ lexpos < Len(lexdata)
      /\ AtLineStart
      /\ (LeadingSpaces(FirstLine(lexdata, lexpos)) - cur_indent) % 4 # 0 )
    => token(Self).exc = "Exception"

\* the scan of the last call ended in a rule that looks at the next line
\* (t_NEWLINE, t_freetext_LINE), that line is not empty and the count of
\* its leading whitespace differs from the indentation by no multiple of 4
C2_Misaligned ==
    /\ ev.via = "scan"
    /\ ev.rule \in {"t_NEWLINE", "t_freetext_LINE"}
    /\ lexpos < Len(lexdata)
    /\ FirstLine(lexdata, lexpos) # <<>>
    /\ (LeadingWhitespace(FirstLine(lexdata, lexpos)) - ev.pre.cur_indent) % 4 # 0

\* C2, amended: a call of token() raises the Bad-Indentation error exactly
\* when its scan ends in the Normal-mode NEWLINE rule or the FreeText LINE
\* rule and the non-empty line after the match has a count of leading
\* whitespace (spaces, tabs) that differs from indent_width by no multiple
\* of 4; no token of that line has been returned.  (The first line of the
\* document and a line after a comment are not looked at.)
C2_ComputedDeltaChecked ==
    /\ C2_Misaligned <=> pc = "raised"
    /\ pc = "raised" =>
          /\ ev.exc = "Exception"
          /\ \A i \in 1..Len(out) : out[i].lexpos < lexpos

\* the error is raised from the FreeText rule
C2_Witness ==
    /\ pc = "raised"
    /\ ev.rule = "t_freetext_LINE"
    /\ LeadingWhitespace(FirstLine(lexdata, lexpos)) > ev.pre.cur_indent

\* the last DOUBLE_COLON token returned
HasDoubleColon == \E i \in 1..Len(out) : out[i].type = "DOUBLE_COLON"
LastDoubleColon ==
    out[CHOOSE i \in 1..Len(out) :
            /\ out[i].type = "DOUBLE_COLON"
            /\ \A j \in (i + 1)..Len(out) : out[j].type # "DOUBLE_COLON"]

\* The cursor stands at the start of the physical line that follows the
\* line of the last `::`, nothing is pending, and that line exists.
AtLineAfterDoubleColon ==
    /\ pc = "token"
    /\ HasDoubleColon
    /\ tokens_queue = <<>>
    /\ lexpos < Len(lexdata)
    /\ lexpos = StarNot(lexdata, LastDoubleColon.lexpos, {NL}) + 1

\* the characters from p to the end of the line, the newline included
LineAt(s, p) == Slice(s, p, StarNot(s, p, {NL}) + 1)

\* a text less its leading spaces and tabs
SkipIgnored(s) == Slice(s, Star(s, 0, {SP, TAB}), Len(s))

\* the number of DEDENT tokens at the end of toks
RECURSIVE TrailingDedents(_)
TrailingDedents(toks) ==
    IF toks # <<>> /\ toks[Len(toks)].type = "DEDENT"
    THEN 1 + TrailingDedents(SubSeq(toks, 1, Len(toks) - 1))
    ELSE 0

\* C3 as stated: the physical line after the line of `::` is returned as
\* one LINE token holding the whole line, whatever its indentation (unless
\* the call fails on the indentation of the line after it).
C3_NextLineIsWholeLine ==
    AtLineAfterDoubleColon =>
        LET t == token(Self)
        IN  \/ t.exc = "Exception"
            \/ /\ t.lx.last_token.type = "LINE"
               /\ t.lx.last_token.value = PyStr(LineAt(lexdata, lexpos))

\* C3, amended: the token after a DOUBLE_COLON is always a LINE token (or
\* the Bad-Indentation error): it holds the rest of the line of `::`.  The
\* physical line after that is returned as one LINE token, holding the line
\* less its leading spaces and tabs, when it is empty or indented at or
\* above the new baseline; when it is indented below the baseline the mode
\* is Normal again, DEDENT tokens precede it and it is scanned with the
\* Normal-mode rules (no LINE token).
C3_LineAfterDoubleColon ==
    /\ (pc = "token" /\ last_token.type = "DOUBLE_COLON") =>
          /\ lexstate = "freetext"
          /\ LET t == token(Self)
             IN  \/ t.exc = "Exception"
                 \/ /\ t.via = "scan"
                    /\ t.lx.last_token.type = "LINE"
                    /\ t.lx.last_token.value = PyStr(SkipIgnored(LineAt(lexdata, lexpos)))
    /\ AtLineAfterDoubleColon =>
          LET line == FirstLine(lexdata, lexpos)
              k == TrailingDedents(out)
              baseline == cur_indent + 4 * k
              t == token(Self)
          IN  /\ lexstate = "freetext" <=>
                    (line = <<>> \/ LeadingWhitespace(line) >= baseline)
              /\ lexstate = "freetext" => k = 0
              /\ \/ t.exc = "Exception"
                 \/ IF lexstate = "freetext"
                    THEN /\ t.lx.last_token.type = "LINE"
                         /\ t.lx.last_token.value =
                                PyStr(SkipIgnored(LineAt(lexdata, lexpos)))
                    ELSE t.lx.last_token.type # "LINE"

\* the line after the line of `::` is indented above the baseline and is
\* about to be returned
C3_Witness ==
    /\ AtLineAfterDoubleColon
    /\ lexstate = "freetext"
    /\ LeadingWhitespace(FirstLine(lexdata, lexpos)) > cur_indent
    /\ token(Self).exc = ""

\* the tokens the last call produced: the one returned and those pending
Produced == <<last_token>> \o tokens_queue

\* C4 as stated: after a LINE is captured, DEDENT tokens follow and the
\* mode is Normal again exactly when the next line is not empty and lies
\* below the baseline by a multiple of 4 (abs(delta) DEDENT tokens,
\* indent_width the line's indentation); when the next line is at or above
\* the baseline, is empty, or there is none, only the LINE token is
\* produced and the mode stays FreeText.
C4_FreeTextCloses ==
    (ev.via = "scan" /\ ev.rule = "t_freetext_LINE") =>
        LET base == ev.pre.cur_indent
            line == FirstLine(lexdata, lexpos)
            d == LeadingWhitespace(line) - base
            closes == lexpos < Len(lexdata) /\ line # <<>> /\ d < 0 /\ d % 4 = 0
            stays == lexpos >= Len(lexdata) \/ line = <<>> \/ d >= 0
        IN  /\ closes =>
                /\ pc = "token"
                /\ Kinds(Produced) = <<"LINE">> \o [i \in 1..((-d) \div 4) |-> "DEDENT"]
                /\ lexstate = "INITIAL"
                /\ cur_indent = LeadingWhitespace(line)
            /\ stays =>
                /\ pc = "token"
                /\ Kinds(Produced) = <<"LINE">>
                /\ lexstate = "freetext"
                /\ cur_indent = base

\* C4, amended: as stated, for a next line at or above the baseline by a
\* multiple of 4; a next line that is not empty and differs from the
\* baseline by no multiple of 4 (above or below) raises the Bad-Indentation
\* error instead.  No other call of token() made in FreeText mode leaves
\* the mode.
C4_FreeTextClosesOrFails ==
    /\ (ev.via = "scan" /\ ev.rule = "t_freetext_LINE") =>
        LET base == ev.pre.cur_indent
            line == FirstLine(lexdata, lexpos)
            d == LeadingWhitespace(line) - base
            next == lexpos < Len(lexdata) /\ line # <<>>
        IN  IF next /\ d % 4 # 0 THEN pc = "raised"
            ELSE IF next /\ d < 0
            THEN /\ pc = "token"
                 /\ Kinds(Produced) = <<"LINE">> \o [i \in 1..((-d) \div 4) |-> "DEDENT"]
                 /\ lexstate = "INITIAL"
                 /\ cur_indent = LeadingWhitespace(line)
            ELSE /\ pc = "token"
                 /\ Kinds(Produced) = <<"LINE">>
                 /\ lexstate = "freetext"
                 /\ cur_indent = base
    /\ (ev.pre.lexstate = "freetext" /\ ev.rule # "t_freetext_LINE") =>
          lexstate = "freetext"

\* a free-text block is closed by a line below its baseline
C4_Witness ==
    /\ ev.rule = "t_freetext_LINE"
    /\ ev.pre.lexstate = "freetext"
    /\ lexstate = "INITIAL"
    /\ Kinds(Produced) = <<"LINE", "DEDENT">>

\* C7: once token() has returned None, every later call returns None and
\* returns no further token.
C7_EndOfStreamIsFinal ==
    [][pc = "eos" => (pc' = "eos" /\ last_token' = None /\ out' = out)]_lexvars

\* token() was called again after it had returned None, for a document
\* whose input ran out in FreeText mode with a block open
C7_Witness ==
    /\ pc = "eos"
    /\ ev.via = "eos"
    /\ ev.pre.last_token = None
    /\ lexstate = "freetext"
    /\ Count(out, "DEDENT") >= 1

\* w stands at p as a whole word: no identifier character around it
ExactWord(s, p, w) ==
    /\ Lit(s, p, w)
    /\ At(s, p - 1) \notin WordChar \cup {"-"}
    /\ At(s, p + Len(w)) \notin WordChar \cup {"-"}

\* C8: the word true gives a BOOLEAN token of value true, the word false a
\* BOOLEAN token of value false, the word null a NULL token.
C8_BooleanAndNullValues ==
    \A i \in 1..Len(out) :
        LET tok == out[i]
        IN  /\ ExactWord(lexdata, tok.lexpos, <<"t","r","u","e">>) =>
                 (tok.type = "BOOLEAN" /\ tok.value = PyBool(TRUE))
            /\ ExactWord(lexdata, tok.lexpos, <<"f","a","l","s","e">>) =>
                 (tok.type = "BOOLEAN" /\ tok.value = PyBool(FALSE))
            /\ ExactWord(lexdata, tok.lexpos, <<"n","u","l","l">>) =>
                 tok.type = "NULL"

\* The lexers at the head of each turn of ply's loop during the next scan
\* from lx (lx itself, and the lexer after every turn that returns nothing).
RECURSIVE ScanPoints(_)
ScanPoints(lx) ==
    IF lx.lexpos >= Len(lx.lexdata) THEN {}
    ELSE LET st == ScanStep(lx)
         IN  {lx} \cup (IF st.r.kind = "skip" THEN ScanPoints(st.lx) ELSE {})

\* no rule matches at the cursor of lx (and the character is not ignored)
Unrecognized(lx) ==
    /\ lx.lexpos < Len(lx.lexdata)
    /\ At(lx.lexdata, lx.lexpos) \notin t_ignore(lx.lexstate)
    /\ FirstMatch(lx.lexstate, lx.lexdata, lx.lexpos) = ""

\* lx over the document without the character at its cursor
WithoutCharacter(lx) ==
    [lx EXCEPT !.lexdata = Slice(@, 0, lx.lexpos) \o Slice(@, lx.lexpos + 1, Len(@))]

\* the turn at an unrecognized character: one diagnostic with the character
\* and the line, the cursor one further, no token, nothing else changed
C5_SkipsOneCharacter(q) ==
    LET st == ScanStep(q)
    IN  /\ st.r = ResSkip
        /\ st.lx.log = Append(q.log, [char |-> At(q.lexdata, q.lexpos),
                                      lineno |-> q.lineno])
        /\ st.lx = [q EXCEPT !.lexpos = @ + 1, !.log = st.lx.log]

\* the tokens returned from the character on are those returned from the
\* same place of the document without the character
C5_RemainderUnaffected(q) ==
    LET a == Run(ScanStep(q).lx)
        b == Run(WithoutCharacter(q))
    IN  a.exc = b.exc /\ KindTexts(a.out) = KindTexts(b.out)

\* C5 as stated: at a character no rule matches, one diagnostic, the cursor
\* one further, no token, indent_width, mode and queue unchanged, and the
\* tokens of the remainder are the same as if the character were absent.
C5_UnrecognizedCharacterSkipped ==
    (pc \in {"input", "token"} /\ tokens_queue = <<>>) =>
        \A q \in ScanPoints(Self) :
            Unrecognized(q) => C5_SkipsOneCharacter(q) /\ C5_RemainderUnaffected(q)

\* the character stands between a word character (a digit, as a letter or
\* _ before it would have taken it into an ID) and true, false or null
C5_SplitsWord(q) ==
    /\ At(q.lexdata, q.lexpos - 1) \in WordChar
    /\ \/ re_BOOLEAN(q.lexdata, q.lexpos + 1) # NoMatch
       \/ re_NULL(q.lexdata, q.lexpos + 1) # NoMatch

\* C5, amended: as stated, except where the character stands between a
\* word character and one of the words true, false, null: with the
\* character the word is a BOOLEAN or NULL token, without it the word is
\* no word of its own (\b fails) and is an ID.
C5_UnrecognizedCharacterSkippedUnlessSplit ==
    (pc \in {"input", "token"} /\ tokens_queue = <<>>) =>
        \A q \in ScanPoints(Self) :
            Unrecognized(q) =>
                /\ C5_SkipsOneCharacter(q)
                /\ ~C5_SplitsWord(q) => C5_RemainderUnaffected(q)

\* the last call passed one unrecognized character between two tokens
C5_Witness ==
    /\ pc = "token"
    /\ ev.via = "scan"
    /\ Len(log) = Len(ev.pre.log) + 1
    /\ Len(out) >= 2
    /\ ev.pre.last_token.type \notin {"None", "NEWLINE"}
    /\ last_token.type # "NEWLINE"

EndsInNewline(d) == d # <<>> /\ d[Len(d)] = NL

\* C6 as stated: input() appends a newline only to a document that does
\* not end in one; so a document d that does not end in a newline and d
\* followed by a newline give the same token kinds and texts.
C6_NewlineAppendedWhenMissing ==
    pc = "input" =>
        /\ lexdata = IF EndsInNewline(file_data) THEN file_data
                     ELSE file_data \o <<NL>>
        /\ ~EndsInNewline(file_data) =>
              LET a == Tokenize(file_data)
                  b == Tokenize(file_data \o <<NL>>)
              IN  a.exc = b.exc /\ KindTexts(a.out) = KindTexts(b.out)

\* C6, amended: input() appends a newline to every document.  A document d
\* that does not end in a newline and d followed by a newline fail alike;
\* when the scan ends in Normal mode they give the same token kinds, and
\* the same texts but for the NEWLINE token matched at the end of the
\* input, which holds one newline more; when the scan ends in FreeText
\* mode, d followed by a newline gives one more LINE token, the empty last
\* line, before the closing DEDENT tokens.
C6_NewlineAlwaysAppended ==
    pc = "input" =>
        /\ lexdata = file_data \o <<NL>>
        /\ ~EndsInNewline(file_data) =>
              LET a == Tokenize(file_data)
                  b == Tokenize(file_data \o <<NL>>)
                  k == TrailingDedents(a.out)
                  n == Len(a.out)
              IN  /\ a.exc = b.exc
                  /\ a.lx.lexstate = b.lx.lexstate
                  /\ a.exc # "" => KindTexts(a.out) = KindTexts(b.out)
                  /\ (a.exc = "" /\ a.lx.lexstate = "INITIAL") =>
                        /\ Kinds(a.out) = Kinds(b.out)
                        /\ \A i \in 1..n :
                              \/ a.out[i].value = b.out[i].value
                              \/ /\ a.out[i].type = "NEWLINE"
                                 /\ a.out[i].lexpos + Len(a.out[i].value.s) = Len(lexdata)
                                 /\ b.out[i].value = PyStr(a.out[i].value.s \o <<NL>>)
                  /\ (a.exc = "" /\ a.lx.lexstate = "freetext") =>
                        /\ k >= 1
                        /\ KindTexts(b.out) =
                              KindTexts(SubSeq(a.out, 1, n - k))
                              \o << <<"LINE", PyStr(<<NL>>)>> >>
                              \o KindTexts(SubSeq(a.out, n - k + 1, n))

\* a document that does not end in a newline and whose scan ends in
\* FreeText mode
C6_Witness ==
    /\ pc = "input"
    /\ ~EndsInNewline(file_data)
    /\ Tokenize(file_data).exc = ""
    /\ Tokenize(file_data).lx.lexstate = "freetext"

\* C9: validate of every data type returns None or raises ValidationError,
\* and nothing else.
C9_ValidateReturnsOrValidationError ==
    tpc = "validated" => result \in {"None", "ValidationError"}

\* a bound given to an integer type lies in the type's own range
C10_InRange(cls, a) ==
    a = VNone \/ (IntLeq(ClassMinimum(cls), a.int) /\ IntLeq(a.int, ClassMaximum(cls)))

\* C10: an integer type is made with min_value alone, max_value alone or
\* both, inside the type's range; validate then accepts an integral value
\* exactly between the effective bounds; a min_value below the range or a
\* max_value above it is rejected with ValueError.
C10_IntegerBounds ==
    (tpc # "none" /\ obj.cls \in IntegerClasses) =>
        LET min_value == args[1]
            max_value == args[2]
            effective_min == IF min_value = VNone THEN ClassMinimum(obj.cls)
                             ELSE min_value.int
            effective_max == IF max_value = VNone THEN ClassMaximum(obj.cls)
                             ELSE max_value.int
        IN  IF C10_InRange(obj.cls, min_value) /\ C10_InRange(obj.cls, max_value)
            THEN /\ tpc # "failed"
                 /\ (tpc = "validated" /\ IsIntegral(val)) =>
                       (result = "None" <=>
                           (IntLeq(effective_min, val.int) /\ IntLeq(val.int, effective_max)))
            ELSE ( \/ (min_value # VNone /\ IntLess(min_value.int, ClassMinimum(obj.cls)))
                   \/ (max_value # VNone /\ IntLess(ClassMaximum(obj.cls), max_value.int)) )
                 => (tpc = "failed" /\ exc = "ValueError")

\* the kinds of a NEWLINE token followed by abs(delta) INDENT tokens
\* (delta > 0) or DEDENT tokens (delta < 0)
NewlineAndDents(delta) ==
    <<"NEWLINE">> \o [i \in 1..abs(delta) |-> IF delta > 0 THEN "INDENT" ELSE "DEDENT"]

\* the last call's scan ended in the Normal-mode NEWLINE rule, and a
\* non-empty line follows the newlines it matched
AfterNewlineRun ==
    /\ ev.rule = "t_NEWLINE"
    /\ lexpos < Len(lexdata)
    /\ FirstLine(lexdata, lexpos) # <<>>

\* C11 as stated: after a run of newlines in Normal mode, the next line
\* being non-empty with new_indent leading spaces that differ from
\* indent_width by a multiple of 4, the scan gives one NEWLINE and then
\* abs(delta) INDENT or DEDENT tokens, and indent_width is new_indent.
C11_NewlineRunBySpaces ==
    LET new_indent == LeadingSpaces(FirstLine(lexdata, lexpos))
    IN  (AfterNewlineRun /\ (new_indent - ev.pre.cur_indent) % 4 = 0) =>
            /\ pc = "token"
            /\ Kinds(Produced) = NewlineAndDents((new_indent - ev.pre.cur_indent) \div 4)
            /\ cur_indent = new_indent

\* C11, amended: new_indent counts the leading whitespace of the next line,
\* tabs as well as spaces, one column each.  When it differs from
\* indent_width by a multiple of 4 the scan gives one NEWLINE token, whose
\* text is the whole run of newlines, then abs(delta) INDENT or DEDENT
\* tokens, and indent_width is new_indent.
C11_NewlineRunByWhitespace ==
    LET new_indent == LeadingWhitespace(FirstLine(lexdata, lexpos))
    IN  (AfterNewlineRun /\ (new_indent - ev.pre.cur_indent) % 4 = 0) =>
            /\ pc = "token"
            /\ Kinds(Produced) = NewlineAndDents((new_indent - ev.pre.cur_indent) \div 4)
            /\ cur_indent = new_indent
            /\ last_token.value.s = Slice(lexdata, last_token.lexpos, lexpos)
            /\ \A i \in 1..Len(last_token.value.s) : last_token.value.s[i] = NL
            /\ At(lexdata, last_token.lexpos - 1) # NL

\* a run of newlines before a line one level lower
C11_Witness ==
    /\ AfterNewlineRun
    /\ Kinds(Produced) = <<"NEWLINE", "DEDENT">>
    /\ cur_indent = ev.pre.cur_indent - 4

\* the last call found the queue empty and the scan reached the end of the
\* input without a token
ReachedEndOfInput ==
    /\ pc \in {"token", "eos", "raised"}
    /\ ev.pre.tokens_queue = <<>>
    /\ lex_token(ev.pre).r = ResNone

\* C12: at the end of the input with indent_width > 0, token() produces a
\* NEWLINE exactly when the token returned last was neither NEWLINE nor
\* LINE, then indent_width / 4 DEDENT tokens (at least one), and sets
\* indent_width to 0; with indent_width = 0 it returns end-of-stream and
\* produces nothing; end-of-stream comes only with indent_width 0 and
\* nothing pending.
C12_EndOfInputClosing ==
    /\ (ReachedEndOfInput /\ ev.pre.cur_indent > 0) =>
          /\ pc = "token"
          /\ ev.pre.cur_indent \div 4 >= 1
          /\ Kinds(Produced) =
                (IF ev.pre.last_token.type \notin {"NEWLINE", "LINE"}
                 THEN <<"NEWLINE">> ELSE <<>>)
                \o [i \in 1..(ev.pre.cur_indent \div 4) |-> "DEDENT"]
          /\ cur_indent = 0
    /\ (ReachedEndOfInput /\ ev.pre.cur_indent = 0) =>
          /\ pc = "eos"
          /\ last_token = None
          /\ tokens_queue = <<>>
    /\ pc = "eos" => (ReachedEndOfInput /\ cur_indent = 0 /\ tokens_queue = <<>>)

\* the input ends under an indented comment: NEWLINE and DEDENT are made up
C12_Witness ==
    /\ ReachedEndOfInput
    /\ ev.pre.last_token.type = "INDENT"
    /\ Kinds(Produced) = <<"NEWLINE", "DEDENT">>

\* the last call returned a LINE token that its scan matched
ScannedLine ==
    /\ pc = "token"
    /\ ev.via = "scan"
    /\ ev.rule = "t_freetext_LINE"

\* C13 as stated: the text of a LINE token scanned from the first column of
\* a line is the whole line, leading spaces and tabs and the newline
\* included.
C13_LineVerbatim ==
    (ScannedLine /\ At(ev.pre.lexdata, ev.pre.lexpos - 1) = NL) =>
        last_token.value.s = LineAt(lexdata, ev.pre.lexpos)

\* C13, amended: the text of a LINE token is what stands between the
\* cursor and the end of the line, the newline included, less the spaces
\* and tabs at the cursor (the freetext state ignores them); the token
\* starts at the first character kept and the cursor ends behind the
\* newline.  Every LINE token is made so.
C13_LineLessLeadingBlanks ==
    /\ ScannedLine =>
          /\ last_token.type = "LINE"
          /\ last_token.value.s = SkipIgnored(LineAt(lexdata, ev.pre.lexpos))
          /\ last_token.lexpos =
                ev.pre.lexpos + Star(LineAt(lexdata, ev.pre.lexpos), 0, {SP, TAB})
          /\ lexpos = StarNot(lexdata, ev.pre.lexpos, {NL}) + 1
    /\ (pc = "token" /\ last_token.type = "LINE") => ScannedLine

\* a line of free text that starts with spaces has been returned
C13_Witness ==
    /\ ScannedLine
    /\ At(ev.pre.lexdata, ev.pre.lexpos - 1) = NL
    /\ At(ev.pre.lexdata, ev.pre.lexpos) = SP
    /\ Len(last_token.value.s) >= 2

\* a line of spaces only (at least one)
OnlySpaces(line) == line # <<>> /\ \A i \in 1..Len(line) : line[i] = SP

\* C14 as stated: when the line after a run of newlines is blank, empty or
\* of spaces only, the scan produces the NEWLINE token alone and leaves
\* indent_width as it was.
C14_BlankLineNoDent ==
    ( /\ ev.rule = "t_NEWLINE"
      /\ lexpos < Len(lexdata)
      /\ (FirstLine(lexdata, lexpos) = <<>> \/ OnlySpaces(FirstLine(lexdata, lexpos))) )
    => /\ pc = "token"
       /\ Kinds(Produced) = <<"NEWLINE">>
       /\ cur_indent = ev.pre.cur_indent

\* the INDENT and DEDENT tokens of toks, in order
RECURSIVE Dents(_)
Dents(toks) ==
    IF toks = <<>> THEN <<>>
    ELSE (IF Head(toks).type \in {"INDENT", "DEDENT"} THEN <<Head(toks).type>> ELSE <<>>)
         \o Dents(Tail(toks))

\* the document d with an empty line put in after its i-th character
WithEmptyLineAfter(d, i) == SubSeq(d, 1, i) \o <<NL>> \o SubSeq(d, i + 1, Len(d))

\* C14, amended: an empty line never triggers indent/dedent.  In Normal
\* mode the empty lines after a newline belong to the same run: the NEWLINE
\* rule stops before a character that is no newline, and a run that ends
\* the input gives the NEWLINE token alone and leaves indent_width.  An
\* empty line put in after any line of a document changes neither the
\* INDENT and DEDENT tokens of the stream nor whether the scan fails.  (A
\* line of spaces or tabs only is not blank: it is measured like a line of
\* content.)
C14_EmptyLineNoDent ==
    /\ (ev.rule = "t_NEWLINE" /\ pc = "token" /\ ev.via = "scan") =>
          /\ At(lexdata, lexpos) # NL
          /\ lexpos = Len(lexdata) =>
                (Kinds(Produced) = <<"NEWLINE">> /\ cur_indent = ev.pre.cur_indent)
    /\ pc = "input" =>
          \A i \in 1..Len(file_data) :
              file_data[i] = NL =>
                  LET a == Tokenize(file_data)
                      b == Tokenize(WithEmptyLineAfter(file_data, i))
                  IN  a.exc = b.exc /\ Dents(a.out) = Dents(b.out)

\* an empty line stands before an indented line: one NEWLINE token for the
\* run, and the INDENT of the indented line
C14_Witness ==
    /\ ev.rule = "t_NEWLINE"
    /\ Len(last_token.value.s) >= 2
    /\ Kinds(Produced) = <<"NEWLINE", "INDENT">>

\* C15: indent_width is 0 after input() and a non-negative multiple of 4
\* after every call of token(), one that raises included.
C15_IndentMultipleOfFour ==
    /\ pc = "input" => cur_indent = 0
    /\ pc # "new" => (cur_indent >= 0 /\ cur_indent % 4 = 0)

\* two levels deep, one of them a `::` block
C15_Witness ==
    /\ pc = "token"
    /\ cur_indent = 8
    /\ lexstate = "freetext"

\* C16: a call of token() changes the mode from Normal to FreeText only by
\* returning a DOUBLE_COLON token its scan matched, and from FreeText to
\* Normal only when its scan matched a LINE before a line below the
\* baseline and produced DEDENT tokens after the LINE; no other call
\* changes the mode, and FreeText is not entered from FreeText (the stack
\* of states is never deeper than one).
C16_ModeChanges ==
    /\ (ev.pre.lexstate = "INITIAL" /\ lexstate # "INITIAL") =>
          /\ lexstate = "freetext"
          /\ pc = "token"
          /\ ev.via = "scan"
          /\ ev.rule = "t_DOUBLE_COLON"
          /\ Kinds(Produced) = <<"DOUBLE_COLON">>
    /\ (ev.pre.lexstate = "freetext" /\ lexstate # "freetext") =>
          /\ lexstate = "INITIAL"
          /\ pc = "token"
          /\ ev.via = "scan"
          /\ ev.rule = "t_freetext_LINE"
          /\ LeadingWhitespace(FirstLine(lexdata, lexpos)) < ev.pre.cur_indent
          /\ Len(Produced) >= 2
          /\ Kinds(Produced) = <<"LINE">> \o [i \in 1..(Len(Produced) - 1) |-> "DEDENT"]
    /\ lexstate \in {"INITIAL", "freetext"}
    /\ lexstatestack = IF lexstate = "freetext" THEN <<"INITIAL">> ELSE <<>>

\* the input ends inside a free-text block that was entered after another
\* one had been left: the closing leaves the mode
C16_Witness ==
    /\ ev.via = "close"
    /\ lexstate = "freetext"
    /\ Count(out, "DOUBLE_COLON") = 2

\* C17: where a Normal-mode scan stands at `::`, the rule that runs is
\* t_DOUBLE_COLON; the call whose scan ends in it returns one DOUBLE_COLON
\* token of text `::` and nothing else, with indent_width 4 higher than
\* before and the mode FreeText, whatever indent_width was and whatever
\* follows; no two COLON tokens stand side by side.
C17_DoubleColon ==
    /\ (pc \in {"input", "token"} /\ tokens_queue = <<>>) =>
          \A q \in ScanPoints(Self) :
              (q.lexstate = "INITIAL" /\ Lit(q.lexdata, q.lexpos, <<":", ":">>)) =>
                  ScanStep(q).rule = "t_DOUBLE_COLON"
    /\ ev.rule = "t_DOUBLE_COLON" =>
          /\ pc = "token"
          /\ ev.pre.lexstate = "INITIAL"
          /\ Produced = <<last_token>>
          /\ KindText(last_token) = <<"DOUBLE_COLON", PyStr(<<":", ":">>)>>
          /\ lexpos = last_token.lexpos + 2
          /\ cur_indent = ev.pre.cur_indent + 4
          /\ lexstate = "freetext"
    /\ \A i \in 1..(Len(out) - 1) :
          (out[i].type = "COLON" /\ out[i + 1].type = "COLON") =>
              out[i + 1].lexpos > out[i].lexpos + 1

\* `::` on an indented line, with text behind it on the line
C17_Witness ==
    /\ ev.rule = "t_DOUBLE_COLON"
    /\ ev.pre.cur_indent = 4
    /\ At(lexdata, lexpos) \notin {NL, ""}

LongestMatch(state, s, p) ==
    LET rs == Rules(state)
        ends == {Match(rs[i], s, p) : i \in 1..Len(rs)}
    IN  CHOOSE e \in ends : \A f \in ends : f <= e

\* C19: where a Normal-mode scan stands at a character some rule matches,
\* the token taken is the longest prefix any rule matches; so where the
\* identifier expression matches, the step gives one token over the whole
\* word, a BOOLEAN or NULL token only when the word is true, false or null.
C19_LongestMatch ==
    (pc \in {"input", "token"} /\ tokens_queue = <<>>) =>
        \A q \in ScanPoints(Self) :
            LET s == q.lexdata
                p == q.lexpos
                rule == FirstMatch(q.lexstate, s, p)
                word == re_ID(s, p)
                st == ScanStep(q)
            IN  ( /\ q.lexstate = "INITIAL"
                  /\ At(s, p) \notin t_ignore(q.lexstate)
                  /\ rule # "" ) =>
                    /\ Match(rule, s, p) = LongestMatch(q.lexstate, s, p)
                    /\ word # NoMatch =>
                          /\ st.r.kind = "token"
                          /\ st.r.tokens[1].lexpos = p
                          /\ st.lx.lexpos = word
                          /\ st.r.tokens[1].type \in {"BOOLEAN", "NULL"} <=>
                                Slice(s, p, word) \in {<<"t","r","u","e">>,
                                                       <<"f","a","l","s","e">>,
                                                       <<"n","u","l","l">>}

\* the levels open after the tokens toks: INDENT and DOUBLE_COLON tokens
\* less DEDENT tokens
OpenLevels(toks) ==
    Count(toks, "INDENT") + Count(toks, "DOUBLE_COLON") - Count(toks, "DEDENT")

\* C20: whenever no token is pending, indent_width is 4 times the INDENT
\* and DOUBLE_COLON tokens returned less the DEDENT tokens returned; the
\* DEDENT tokens returned never outnumber the INDENT and DOUBLE_COLON
\* tokens returned, and equal them at end-of-stream.
C20_IndentCountsTokens ==
    /\ (pc # "new" /\ tokens_queue = <<>>) => cur_indent = 4 * OpenLevels(out)
    /\ OpenLevels(out) >= 0
    /\ pc = "eos" => OpenLevels(out) = 0

\* one level has been opened and closed and a `::` block is open
C20_Witness ==
    /\ pc = "token"
    /\ tokens_queue = <<>>
    /\ cur_indent = 4
    /\ Count(out, "INDENT") >= 1
    /\ Count(out, "DEDENT") >= 1
    /\ Count(out, "DOUBLE_COLON") >= 1

\* every raw scan step the next token() makes moves the cursor forward
ScanAdvances ==
    (pc \in {"input", "token"} /\ tokens_queue = <<>>) =>
        \A q \in ScanPoints(Self) : ScanStep(q).lx.lexpos > q.lexpos

\* the call before this state ran the end-of-input closing
Closed == pc \in {"token", "raised"} /\ ev.via = "close"

\* C21: repeated token() calls on a document eventually return
\* end-of-stream unless the Bad-Indentation error is raised, which is the
\* only error; every raw scan step (token rule, comment, ignored
\* whitespace, unrecognized character, in either mode) advances the cursor
\* by at least one character, and every call of token() changes the lexer
\* or raises; the end-of-input closing runs with indent_width > 0 only and
\* leaves it 0 for good, so it runs at most once.
C21_Terminates ==
    /\ (pc = "input") ~> (pc \in {"eos", "raised"})
    /\ [](pc = "raised" =>
            (ev.exc = "Exception" /\ ev.rule \in {"t_NEWLINE", "t_freetext_LINE"}))
    /\ []ScanAdvances
    /\ [](TokenEnabled => (token(Self).exc # "" \/ token(Self).lx # Self))
    /\ [](Closed => (pc = "token" /\ ev.pre.cur_indent > 0))
    /\ [](Closed => [](cur_indent = 0))

\* end-of-stream is returned right after the DEDENT tokens of the closing,
\* for a document with a free-text line
C21_Witness ==
    /\ pc = "eos"
    /\ ev.via = "eos"
    /\ ev.pre.last_token # None
    /\ ev.pre.last_token.type = "DEDENT"
    /\ ev.pre.last_token.lexpos > Len(lexdata)
    /\ Count(out, "LINE") >= 1

====
